---- MODULE Spec2Model ----
(***************************************************************************)
(* Conversation stores and streamed chat endpoints of the FRIDAY backend:  *)
(*   core/memory.py               MemoryManager                            *)
(*   core/conversation_store.py   ConversationStore (the /v2 store)        *)
(*   core/simple_conversation.py  SimpleConversation (the /simple store)   *)
(*   api/chat.py, api/chat_v2.py, api/chat_simple.py   the stream handlers *)
(*                                                                         *)
(* Conversation ids are naturals: uuid4 draws 1, 2, ... in order; 0 is an  *)
(* id a client holds that this deployment never issued.  NoId is Python's  *)
(* None.  A text (message content, conversation name) is a sequence of     *)
(* words.  datetime.now() reads `clock`, which ticks in every handler that  *)
(* stamps a turn or a conversation.                                        *)
(***************************************************************************)
EXTENDS Integers, Sequences, FiniteSets, TLC

\* ------------------------------------------------------------------ bounds
MaxClock == 3      \* handlers that read datetime.now() in one run
MaxUuid == 2       \* uuid4 draws in one run

NoId == -1
\* the turns a caller appends: role and content
Turns == {[role |-> "user", content |-> <<"what", "is", "python">>],
          [role |-> "assistant", content |-> <<"python">>]}
Names == {<<"Chat">>, <<"Trip">>}
NoName == <<>>
\* what a file write can do: succeed, fail before the file is touched
\* (mkdir/open raises), or fail after open(..., 'w') truncated the file
WriteOutcomes == {"ok", "fail_open", "fail_dump"}

VARIABLES
    conversations,   \* MemoryManager.conversations: id -> Conversation
    disk,            \* settings.conversations_dir: id -> file content
    clock,           \* datetime.now()
    next_uuid,       \* uuid4 draws so far
    last,            \* the store call that ran last, and how it ended
    v2_conversations,          \* ConversationStore.conversations: id -> messages
    v2_disk,                   \* ../data/chats: id -> file content
    active_conversation_id,    \* SimpleConversation.active_conversation_id
    messages,                  \* SimpleConversation.messages
    simple_disk,               \* ../data/simple_chats: id -> file content
    requests,                  \* the streamed requests in flight, per client
    args,                      \* the last call of a pure function: what it was given
    returned,                  \* and what it returned
    topic_stack                \* ContextTracker.topic_stack of the global context_tracker

mm_vars == <<conversations, disk>>
v2_vars == <<v2_conversations, v2_disk>>
simple_vars == <<active_conversation_id, messages, simple_disk>>
vars == <<conversations, disk, clock, next_uuid, last, v2_conversations, v2_disk,
          active_conversation_id, messages, simple_disk, requests, args, returned,
          topic_stack>>
pure_vars == <<args, returned>>
tracker_vars == <<topic_stack>>

\* ------------------------------------------------------------- helpers
Max(a, b) == IF a >= b THEN a ELSE b

IsPrefix(s, t) == Len(s) <= Len(t) /\ SubSeq(t, 1, Len(s)) = s

Message(role, content, now) ==
    [role |-> role, content |-> content, timestamp |-> now]

\* a store call: its name, the id it was given, how it ended ("ok", what it
\* returned when that is False/None, or the exception it raised) and the
\* conversation it worked on
Call(op, arg, outcome, conv) ==
    [op |-> op, arg |-> arg, outcome |-> outcome, conv |-> conv]

Without(f, id) == [k \in DOMAIN f \ {id} |-> f[k]]

With(f, id, v) == [k \in DOMAIN f \cup {id} |-> IF k = id THEN v ELSE f[k]]

\* json.dump(conversation.model_dump(), default=str): datetimes become strings
DumpMessage(m) ==
    [role |-> m.role, content |-> m.content, timestamp |-> <<"str", m.timestamp>>]

model_dump_json(conv) ==
    [kind |-> "json",
     id |-> conv.id,
     name |-> conv.name,
     messages |-> [i \in 1..Len(conv.messages) |-> DumpMessage(conv.messages[i])],
     created_at |-> <<"str", conv.created_at>>,
     updated_at |-> <<"str", conv.updated_at>>]

Truncated == [kind |-> "truncated"]

\* Conversation(**json.load(f)): pydantic parses the strings back to datetimes
ParseMessage(d) ==
    [role |-> d.role, content |-> d.content, timestamp |-> d.timestamp[2]]

ParseConversation(data) ==
    [id |-> data.id,
     name |-> data.name,
     messages |-> [i \in 1..Len(data.messages) |-> ParseMessage(data.messages[i])],
     created_at |-> data.created_at[2],
     updated_at |-> data.updated_at[2]]

\* _load_from_disk: every *.json that parses; a file that does not is skipped
LoadFromDisk(d) ==
    [id \in {k \in DOMAIN d : d[k].kind = "json"} |-> ParseConversation(d[id])]

\* _save_conversation (local file; Firestore is off by default)
SaveConversationWrong(d, conv, outcome) == d

SaveConversation(d, conv, outcome) ==
    CASE outcome = "ok" -> With(d, conv.id, model_dump_json(conv))
      [] outcome = "fail_open" -> d
      [] outcome = "fail_dump" -> With(d, conv.id, Truncated)

\* settings.auto_save_conversations and settings.use_firestore, as shipped
auto_save_conversations == TRUE

WriteResult(outcome) == IF outcome = "ok" THEN "ok" ELSE "IOError"

\* get_conversation_history: `if limit:` is false for None and for 0
get_conversation_history(convs, id, limit) ==
    IF id \notin DOMAIN convs THEN <<>>
    ELSE LET msgs == convs[id].messages
         IN  IF limit # NoId /\ limit # 0
             THEN SubSeq(msgs, Max(1, Len(msgs) - limit + 1), Len(msgs))
             ELSE msgs

\* --------------------------------------------------------------- Init
Init ==
    /\ conversations = <<>>
    /\ disk = <<>>
    /\ clock = 0
    /\ next_uuid = 0
    /\ last = Call("init", NoId, "ok", NoId)
    /\ v2_conversations = <<>>
    /\ v2_disk = <<>>
    /\ active_conversation_id = NoId
    /\ messages = <<>>
    /\ simple_disk = <<>>
    /\ requests = <<>>
    /\ args = [fn |-> "none"]
    /\ returned = <<>>
    /\ topic_stack = <<>>

\* ------------------------------------------------- MemoryManager calls
\* get_or_create_conversation(conversation_id): a known id is returned as is
GetExisting(id) ==
    /\ id \in DOMAIN conversations
    /\ last' = Call("get_or_create", id, "ok", id)
    /\ UNCHANGED <<conversations, disk, clock, next_uuid>>

\* an id that is not in memory reaches `self.storage.load_conversation`, and
\* MemoryManager has no attribute `storage`
GetUnknown(id) ==
    /\ id \notin DOMAIN conversations
    /\ last' = Call("get_or_create", id, "AttributeError", id)
    /\ UNCHANGED <<conversations, disk, clock, next_uuid>>

\* Conversation(id=new_id, messages=[], created_at=now, updated_at=now)
NewConversation(new_id, now) ==
    [id |-> new_id, name |-> NoName, messages |-> <<>>,
     created_at |-> now, updated_at |-> now]

\* no id: a new conversation under a fresh uuid4, saved
CreateNew(outcome) ==
    /\ clock < MaxClock
    /\ next_uuid < MaxUuid
    /\ LET new_id == next_uuid + 1
           now == clock + 1
           conversation == NewConversation(new_id, now)
       IN  /\ conversations' = With(conversations, new_id, conversation)
           /\ disk' = SaveConversation(disk, conversation, outcome)
           /\ next_uuid' = new_id
           /\ clock' = now
           /\ last' = Call("get_or_create", NoId, WriteResult(outcome), new_id)

get_or_create_conversation(id) ==
    \/ id # NoId /\ GetExisting(id)
    \/ id # NoId /\ GetUnknown(id)
    \/ id = NoId /\ \E outcome \in WriteOutcomes : CreateNew(outcome)

AddMessageUnknownLenient(id) ==
    /\ id \notin DOMAIN conversations
    /\ conversations' = With(conversations, id, NewConversation(id, clock))
    /\ last' = Call("add_message", id, "ok", id)
    /\ UNCHANGED <<disk, clock, next_uuid>>

\* add_message on an id that is not in memory raises ValueError
AddMessageUnknown(id) ==
    /\ id \notin DOMAIN conversations
    /\ last' = Call("add_message", id, "ValueError", id)
    /\ UNCHANGED <<conversations, disk, clock, next_uuid>>

\* conversation.messages.append(message); conversation.updated_at = now
WithMessageWrong(conv, message, now) ==
    [conv EXCEPT !.messages = <<message>> \o @, !.updated_at = now]

WithMessage(conv, message, now) ==
    [conv EXCEPT !.messages = Append(@, message), !.updated_at = now]

\* conversation = self.conversations[conversation_id], then the append: the
\* conversation is read and written with no suspension point in between
AppendTurnLost(convs, id, message, now) ==
    [convs EXCEPT ![id] = [@ EXCEPT !.messages = <<message>>, !.updated_at = now]]

AppendTurn(convs, id, message, now) ==
    [convs EXCEPT ![id] = WithMessage(@, message, now)]

\* the save at the end of add_message
AutoSave(d, conversation, outcome) ==
    IF auto_save_conversations THEN SaveConversation(d, conversation, outcome) ELSE d

AddMessageKnown(id, role, content, outcome) ==
    /\ id \in DOMAIN conversations
    /\ clock < MaxClock
    /\ LET now == clock + 1
           message == Message(role, content, now)
           convs == AppendTurn(conversations, id, message, now)
       IN  /\ conversations' = convs
           /\ disk' = AutoSave(disk, convs[id], outcome)
           /\ clock' = now
           /\ last' = Call("add_message", id, WriteResult(outcome), id)
    /\ UNCHANGED next_uuid

add_message(id, role, content) ==
    \/ AddMessageUnknown(id)
    \/ \E outcome \in WriteOutcomes : AddMessageKnown(id, role, content, outcome)

\* get_conversation_history as a call: what the caller is handed
history(id, limit) ==
    /\ last' = Call("history", id, "ok", id)
    /\ UNCHANGED <<conversations, disk, clock, next_uuid>>

\* rename_conversation
Renamed(conv, name, now) == [conv EXCEPT !.name = name, !.updated_at = now]

rename_conversation(id, name) ==
    \/ /\ id \notin DOMAIN conversations
       /\ last' = Call("rename", id, "False", id)
       /\ UNCHANGED <<conversations, disk, clock, next_uuid>>
    \/ /\ id \in DOMAIN conversations
       /\ clock < MaxClock
       /\ \E outcome \in WriteOutcomes :
            LET now == clock + 1
                conversation == Renamed(conversations[id], name, now)
            IN  /\ conversations' = [conversations EXCEPT ![id] = conversation]
                /\ disk' = SaveConversation(disk, conversation, outcome)
                /\ clock' = now
                /\ last' = Call("rename", id, WriteResult(outcome), id)
       /\ UNCHANGED next_uuid

\* _extract_smart_name, English branch: up to four words longer than two
\* letters that are no stop words; with fewer than two of them, the first five
\* words; the first letter in upper case
StopWords == {"what", "is", "the", "a"}

Capitalized(word) ==
    CASE word = "python" -> "Python"
      [] word = "what" -> "What"
      [] word = "is" -> "Is"
      [] OTHER -> word

Meaningful(words) == SelectSeq(words, LAMBDA w : w \notin StopWords)

_extract_smart_name(words) ==
    LET meaningful == Meaningful(words)
        chosen == IF Len(meaningful) < 2
                  THEN SubSeq(words, 1, IF Len(words) < 5 THEN Len(words) ELSE 5)
                  ELSE SubSeq(meaningful, 1, IF Len(meaningful) < 4 THEN Len(meaningful) ELSE 4)
    IN  IF chosen = <<>> THEN <<"New", "Chat">>
        ELSE <<Capitalized(Head(chosen))>> \o Tail(chosen)

\* name.startswith("Chat") or name.startswith("New")
IsCustomName(name) == name # NoName /\ Head(name) \notin {"Chat", "New"}

\* generate_conversation_name
generate_conversation_name(id) ==
    \/ /\ id \notin DOMAIN conversations
       /\ last' = Call("generate_name", id, "None", id)
       /\ UNCHANGED <<conversations, disk, clock, next_uuid>>
    \/ /\ id \in DOMAIN conversations
       /\ IsCustomName(conversations[id].name)
       /\ last' = Call("generate_name", id, "ok", id)
       /\ UNCHANGED <<conversations, disk, clock, next_uuid>>
    \/ /\ id \in DOMAIN conversations
       /\ ~IsCustomName(conversations[id].name)
       /\ SelectSeq(conversations[id].messages, LAMBDA m : m.role = "user") = <<>>
       /\ last' = Call("generate_name", id, "ok", id)
       /\ UNCHANGED <<conversations, disk, clock, next_uuid>>
    \/ /\ id \in DOMAIN conversations
       /\ ~IsCustomName(conversations[id].name)
       /\ SelectSeq(conversations[id].messages, LAMBDA m : m.role = "user") # <<>>
       /\ clock < MaxClock
       /\ \E outcome \in WriteOutcomes :
            LET user_messages == SelectSeq(conversations[id].messages,
                                           LAMBDA m : m.role = "user")
                name == _extract_smart_name(user_messages[1].content)
                now == clock + 1
                conversation == Renamed(conversations[id], name, now)
            IN  /\ conversations' = [conversations EXCEPT ![id] = conversation]
                /\ disk' = SaveConversation(disk, conversation, outcome)
                /\ clock' = now
                /\ last' = Call("generate_name", id, WriteResult(outcome), id)
       /\ UNCHANGED next_uuid

\* delete_conversation: the entry is removed first, then the file
delete_conversation(id) ==
    \/ /\ id \notin DOMAIN conversations
       /\ last' = Call("delete", id, "False", id)
       /\ UNCHANGED <<conversations, disk, clock, next_uuid>>
    \/ /\ id \in DOMAIN conversations
       /\ conversations' = Without(conversations, id)
       /\ \/ /\ disk' = Without(disk, id)
             /\ last' = Call("delete", id, "ok", id)
          \/ /\ id \in DOMAIN disk
             /\ disk' = disk
             /\ last' = Call("delete", id, "IOError", id)
       /\ UNCHANGED <<clock, next_uuid>>

\* delete_all_conversations: a file whose unlink fails is logged and stays
delete_all_conversations ==
    /\ \E kept \in SUBSET DOMAIN disk : disk' = [k \in kept |-> disk[k]]
    /\ conversations' = <<>>
    /\ last' = Call("delete_all", NoId, "ok", NoId)
    /\ UNCHANGED <<clock, next_uuid>>

\* list_conversations(limit): newest first; Python's sort is stable, so ties
\* keep the dict's insertion order, which the model does not track: a tie may
\* come out either way
IsNewestFirst(convs, order) ==
    \A i \in 1..(Len(order) - 1) :
        convs[order[i]].updated_at >= convs[order[i + 1]].updated_at

Orderings(S) ==
    {order \in [1..Cardinality(S) -> S] : \A k \in S : \E i \in DOMAIN order : order[i] = k}

list_conversations(limit) ==
    /\ \E order \in Orderings(DOMAIN conversations) :
          /\ IsNewestFirst(conversations, order)
          /\ last' = Call("list", NoId, "ok", NoId)
    /\ UNCHANGED <<conversations, disk, clock, next_uuid>>

\* the process restarts: initialize() loads what the directory holds
Restart ==
    /\ conversations' = LoadFromDisk(disk)
    /\ last' = Call("restart", NoId, "ok", NoId)
    /\ UNCHANGED <<disk, clock, next_uuid>>

\* the ids a client can hold: those issued so far, and the foreign id 0
Held == 0..next_uuid

\* ------------------------------------------- ConversationStore (/v2)
\* a message dict: the timestamp is datetime.now().isoformat(), a string, and
\* json keeps a string as it is
Dict(role, content, now) ==
    [role |-> role, content |-> content, timestamp |-> <<"iso", now>>]

JsonFile(id, msgs, now) ==
    [kind |-> "json", id |-> id, messages |-> msgs, updated_at |-> <<"iso", now>>]

\* save / _save: open(file_path, 'w') and json.dump
WriteFile(d, id, msgs, now, outcome) ==
    CASE outcome = "ok" -> With(d, id, JsonFile(id, msgs, now))
      [] outcome = "fail_open" -> d
      [] outcome = "fail_dump" -> With(d, id, Truncated)

\* ConversationStore.add_message: an unknown id gets a new empty list first;
\* save() logs a failed write and returns
V2Added(convs, id, role, content, now) ==
    LET known == IF id \in DOMAIN convs THEN convs[id] ELSE <<>>
    IN  With(convs, id, Append(known, Dict(role, content, now)))

v2_add_message(id, role, content) ==
    /\ clock < MaxClock
    /\ \E outcome \in WriteOutcomes :
         LET now == clock + 1
             convs == V2Added(v2_conversations, id, role, content, now)
         IN  /\ v2_conversations' = convs
             /\ v2_disk' = WriteFile(v2_disk, id, convs[id], now, outcome)
             /\ clock' = now
    /\ last' = Call("v2.add_message", id, "ok", id)
    /\ UNCHANGED next_uuid

\* ConversationStore.delete
v2_delete(id) ==
    /\ id \in DOMAIN v2_conversations \cup DOMAIN v2_disk
    /\ v2_conversations' = Without(v2_conversations, id)
    /\ \/ /\ v2_disk' = Without(v2_disk, id)
          /\ last' = Call("v2.delete", id, "ok", id)
       \/ /\ id \in DOMAIN v2_disk
          /\ v2_disk' = v2_disk
          /\ last' = Call("v2.delete", id, "IOError", id)
    /\ UNCHANGED <<clock, next_uuid>>

\* ConversationStore.load_all, run by the constructor when the process starts
v2_load_all ==
    /\ v2_conversations' =
          [id \in {k \in DOMAIN v2_disk : v2_disk[k].kind = "json"} |-> v2_disk[id].messages]
    /\ last' = Call("v2.load_all", NoId, "ok", NoId)
    /\ UNCHANGED <<v2_disk, clock, next_uuid>>

\* -------------------------------------------- SimpleConversation (/simple)
\* _save: nothing without an active conversation
SimpleSave(d, id, msgs, now, outcome) ==
    IF id = NoId THEN d ELSE WriteFile(d, id, msgs, now, outcome)

\* _load: the file must exist and parse
CanLoad(d, id) == id \in DOMAIN d /\ d[id].kind = "json"

\* a SimpleConversation object with its directory and the uuid4 counter;
\* `raised` tells whether the call ended in an exception
SimpleObject ==
    [active |-> active_conversation_id, messages |-> messages,
     disk |-> simple_disk, uuid |-> next_uuid, raised |-> FALSE]

\* start_new_conversation: the old conversation is saved if it has messages,
\* and a save that raises leaves the object as it was
SimpleStartNew(s, now, outcome) ==
    LET saves == s.active # NoId /\ s.messages # <<>>
        d == IF saves THEN SimpleSave(s.disk, s.active, s.messages, now, outcome)
             ELSE s.disk
    IN  IF saves /\ outcome # "ok"
        THEN [s EXCEPT !.disk = d, !.raised = TRUE]
        ELSE [s EXCEPT !.disk = d, !.active = s.uuid + 1, !.messages = <<>>,
                       !.uuid = s.uuid + 1]

\* get_or_create_conversation: the active one, or the one loaded from its
\* file (the active one is not saved first), or a new one
SimpleGetOrCreate(s, id, now, outcome) ==
    IF id # NoId /\ id = s.active THEN s
    ELSE IF id # NoId /\ CanLoad(s.disk, id)
         THEN [s EXCEPT !.active = s.disk[id].id, !.messages = s.disk[id].messages]
         ELSE SimpleStartNew(s, now, outcome)

\* add_message: appended, then saved; a failed save raises
SimpleAddMessage(s, role, content, now, outcome) ==
    LET msgs == Append(s.messages, Dict(role, content, now))
    IN  [s EXCEPT !.messages = msgs,
                  !.disk = SimpleSave(s.disk, s.active, msgs, now, outcome),
                  !.raised = s.active # NoId /\ outcome # "ok"]

SimpleInstall(s) ==
    /\ active_conversation_id' = s.active
    /\ messages' = s.messages
    /\ simple_disk' = s.disk
    /\ next_uuid' = s.uuid

SimpleResult(s) == IF s.raised THEN "IOError" ELSE "ok"

\* the call draws a uuid4
SimpleDraws(s, id) == id = NoId \/ (id # s.active /\ ~CanLoad(s.disk, id))

simple_start_new ==
    /\ next_uuid < MaxUuid
    /\ \E outcome \in WriteOutcomes :
         LET s == SimpleStartNew(SimpleObject, clock, outcome)
         IN  /\ SimpleInstall(s)
             /\ last' = Call("simple.start_new", NoId, SimpleResult(s), s.active)
    /\ UNCHANGED clock

simple_get_or_create(id) ==
    /\ SimpleDraws(SimpleObject, id) => next_uuid < MaxUuid
    /\ \E outcome \in WriteOutcomes :
         LET s == SimpleGetOrCreate(SimpleObject, id, clock, outcome)
         IN  /\ SimpleInstall(s)
             /\ last' = Call("simple.get_or_create", id, SimpleResult(s), s.active)
    /\ UNCHANGED clock

simple_add_message(role, content) ==
    /\ clock < MaxClock
    /\ \E outcome \in WriteOutcomes :
         LET now == clock + 1
             s == SimpleAddMessage(SimpleObject, role, content, now, outcome)
         IN  /\ SimpleInstall(s)
             /\ clock' = now
             /\ last' = Call("simple.add_message", s.active, SimpleResult(s), s.active)

\* ------------------------------------------------- streamed chat requests
\* A request is a coroutine: a step of the model runs it from one suspension
\* point (a yield, an await on the provider stream) to the next.  The store
\* calls have no suspension point of their own (the file is written with
\* blocking calls), so a step that calls the store runs the call to its end.
Requests == {"r1", "r2"}
MaxTokens == 1     \* token chunks in one provider stream

\* the tools auto_tool_caller suggests for a question that asks for the web
\* and the weather; a question is given the first n of them
SuggestedTools == <<"web_search", "weather_news">>

Question == <<"what", "is", "python">>     \* request.message
Token == "python"                          \* the content of a token chunk
Terminal == {"done", "error"}

Event(type, content) == [type |-> type, content |-> content]

\* pc: begin (response started, generator not yet run), tools (awaiting a
\* pre-executed tool), tool_hung (awaiting one that never returns), tool_results,
\* streaming (inside the provider loop), broke (the loop is over), closed (the
\* generator returned), aborted (the generator raised), cancelled (the client
\* went away), http_500 (the endpoint raised before any response)
Request(endpoint, id) ==
    [endpoint |-> endpoint, conversation_id |-> id, pc |-> "begin",
     header |-> NoId, conv |-> NoId, suggested |-> 0, tools |-> 0,
     failed_tools |-> 0, full_response |-> <<>>,
     events |-> <<>>, appended |-> <<>>, unsaved |-> <<>>]

Emit(req, type, content) == [req EXCEPT !.events = Append(@, Event(type, content))]

\* stream_generator's `except Exception`: one error event, then the end
Caught(req, exception) == [Emit(req, "error", exception) EXCEPT !.pc = "closed"]

\* no handler: the exception ends the generator and the response with it
Uncaught(req, exception) == [req EXCEPT !.pc = "aborted"]

Raised(req, exception) ==
    IF req.endpoint = "stream" THEN Caught(req, exception) ELSE Uncaught(req, exception)

\* the turn was appended by this request; its write may have failed
Appended(req, message, outcome) ==
    [req EXCEPT !.appended = Append(@, message),
                !.unsaved = IF outcome = "ok" THEN @ ELSE Append(@, message)]

Arrives(r) ==
    /\ r \notin DOMAIN requests
    /\ r = "r2" => "r1" \in DOMAIN requests

\* uuid4 draws that admitted /stream requests have still to make
Reserved ==
    Cardinality({q \in DOMAIN requests : /\ requests[q].endpoint = "stream"
                                         /\ requests[q].pc = "begin"
                                         /\ requests[q].conversation_id = NoId})

\* POST /stream: the endpoint calls get_or_create_conversation itself, for the
\* X-Conversation-ID header, and hands the request to stream_generator
chat_stream(r, id) ==
    /\ Arrives(r)
    /\ IF id = NoId
       THEN /\ next_uuid + Reserved + 2 <= MaxUuid
            /\ \E outcome \in WriteOutcomes :
                 LET new_id == next_uuid + 1
                     now == clock + 1
                     conversation == NewConversation(new_id, now)
                     req == Request("stream", id)
                 IN  /\ conversations' = With(conversations, new_id, conversation)
                     /\ disk' = SaveConversation(disk, conversation, outcome)
                     /\ next_uuid' = new_id
                     /\ clock' = now
                     /\ last' = Call("get_or_create", NoId, WriteResult(outcome), new_id)
                     /\ requests' = With(requests, r,
                                         IF outcome = "ok"
                                         THEN [req EXCEPT !.header = new_id]
                                         ELSE [req EXCEPT !.pc = "http_500"])
       ELSE /\ IF id \in DOMAIN conversations
               THEN /\ last' = Call("get_or_create", id, "ok", id)
                    /\ requests' = With(requests, r,
                                        [Request("stream", id) EXCEPT !.header = id])
               ELSE /\ last' = Call("get_or_create", id, "AttributeError", id)
                    /\ requests' = With(requests, r,
                                        [Request("stream", id) EXCEPT !.pc = "http_500"])
            /\ UNCHANGED <<conversations, disk, clock, next_uuid>>

\* stream_generator up to the provider loop: get_or_create_conversation once
\* more, the user turn, the history, the tools suggested for the question
stream_begin(r) ==
    /\ r \in DOMAIN requests
    /\ requests[r].endpoint = "stream"
    /\ requests[r].pc = "begin"
    /\ \E o1 \in WriteOutcomes, o2 \in WriteOutcomes, n \in 0..Len(SuggestedTools) :
         LET req == requests[r]
             id == req.conversation_id
             creates == id = NoId
             new_id == next_uuid + 1
             t1 == IF creates THEN clock + 1 ELSE clock
             convs1 == IF creates
                       THEN With(conversations, new_id, NewConversation(new_id, t1))
                       ELSE conversations
             disk1 == IF creates THEN SaveConversation(disk, convs1[new_id], o1) ELSE disk
             conv == IF creates THEN new_id ELSE id
             raised == IF creates THEN (IF o1 = "ok" THEN "no" ELSE "IOError")
                       ELSE IF id \in DOMAIN conversations THEN "no" ELSE "AttributeError"
             now == t1 + 1
             message == Message("user", Question, now)
             convs2 == AppendTurn(convs1, conv, message, now)
             appended == Appended([req EXCEPT !.conv = conv], message, o2)
         IN  /\ creates \/ o1 = "ok"
             /\ next_uuid' = IF creates THEN new_id ELSE next_uuid
             /\ IF raised # "no"
                THEN /\ o2 = "ok" /\ n = 0
                     /\ conversations' = convs1
                     /\ disk' = disk1
                     /\ clock' = t1
                     /\ last' = Call("get_or_create", id, raised, conv)
                     /\ requests' = [requests EXCEPT ![r] = Caught(req, raised)]
                ELSE /\ o2 = "ok" \/ n = 0
                     /\ conversations' = convs2
                     /\ disk' = AutoSave(disk1, convs2[conv], o2)
                     /\ clock' = now
                     /\ last' = Call("add_message", conv, WriteResult(o2), conv)
                     /\ requests' =
                          [requests EXCEPT ![r] =
                              IF o2 # "ok" THEN Caught(appended, "IOError")
                              ELSE [appended EXCEPT
                                       !.suggested = n,
                                       !.pc = IF n > 0 THEN "tools"
                                              ELSE "streaming"]]

\* what awaiting tool_manager.execute_tool can come to: a result; an error
\* dict, which execute_tool returns for whatever the tool raised and which is
\* kept as the tool's result; an exception of execute_tool itself, which the
\* loop logs and skips; or nothing at all
ToolOutcomes == {"result", "error", "raised", "hangs"}

\* a tool result that is an error dict counts as a result to stream
ToolFailed(outcome) == outcome \in {"error", "raised"}

\* the request after one awaited tool: chat.py's `except Exception` around
\* the call and execute_tool's own both end in the next tool, never in the
\* generator's handler
AfterToolAborting(req, outcome) ==
    IF outcome = "hangs" THEN [req EXCEPT !.pc = "tool_hung"]
    ELSE IF ToolFailed(outcome)
         THEN Caught([req EXCEPT !.failed_tools = @ + 1], "ToolError")
         ELSE [req EXCEPT !.suggested = @ - 1, !.tools = @ + 1,
                          !.pc = IF req.suggested > 1 THEN "tools" ELSE "tool_results"]

AfterTool(req, outcome) ==
    LET left == req.suggested - 1
        results == IF outcome = "raised" THEN req.tools ELSE req.tools + 1
    IN  IF outcome = "hangs" THEN [req EXCEPT !.pc = "tool_hung"]
        ELSE [req EXCEPT
                 !.suggested = left,
                 !.tools = results,
                 !.failed_tools = IF ToolFailed(outcome) THEN @ + 1 ELSE @,
                 !.pc = IF left > 0 THEN "tools"
                        ELSE IF results > 0 THEN "tool_results"
                        ELSE "streaming"]

\* pre-execution of the next suggested tool: `await` with no timeout
execute_tool(r) ==
    /\ r \in DOMAIN requests
    /\ requests[r].pc = "tools"
    /\ \E outcome \in ToolOutcomes :
         requests' = [requests EXCEPT ![r] = AfterTool(@, outcome)]
    /\ UNCHANGED <<conversations, disk, clock, next_uuid, last>>

\* one tool_result event per tool that ran
stream_tool_result(r) ==
    /\ r \in DOMAIN requests
    /\ requests[r].pc = "tool_results"
    /\ requests' = [requests EXCEPT ![r] =
                       [Emit(@, "tool_result", "result") EXCEPT
                           !.tools = @ - 1,
                           !.pc = IF requests[r].tools = 1 THEN "streaming"
                                  ELSE "tool_results"]]
    /\ UNCHANGED <<conversations, disk, clock, next_uuid, last>>

\* llm_engine.stream_chat raises before its first chunk: initialize() found
\* no provider
provider_unavailable(r) ==
    /\ r \in DOMAIN requests
    /\ requests[r].pc = "streaming"
    /\ requests[r].full_response = <<>>
    /\ requests' = [requests EXCEPT ![r] = Raised(@, "Exception")]
    /\ UNCHANGED <<conversations, disk, clock, next_uuid, last>>

\* a token chunk: added to full_response and forwarded
provider_token(r) ==
    /\ r \in DOMAIN requests
    /\ requests[r].pc = "streaming"
    /\ Len(requests[r].full_response) < MaxTokens
    /\ requests' = [requests EXCEPT ![r] =
                       [Emit(@, "token", Token) EXCEPT
                           !.full_response = Append(@, Token)]]
    /\ UNCHANGED <<conversations, disk, clock, next_uuid, last>>

\* an error chunk, the last chunk of a stream: /stream forwards it and leaves
\* the loop, the other two handlers look at token chunks only
provider_error_chunk(r) ==
    /\ r \in DOMAIN requests
    /\ requests[r].pc = "streaming"
    /\ requests' = [requests EXCEPT ![r] =
                       [(IF @.endpoint = "stream" THEN Emit(@, "error", "provider")
                         ELSE @) EXCEPT !.pc = "broke"]]
    /\ UNCHANGED <<conversations, disk, clock, next_uuid, last>>

\* stream_generator after the loop: the assistant turn if there is any text,
\* the follow-up suggestions, the done event
stream_finish(r) ==
    /\ r \in DOMAIN requests
    /\ requests[r].endpoint = "stream"
    /\ requests[r].pc \in {"streaming", "broke"}
    /\ \E outcome \in WriteOutcomes, followups \in BOOLEAN :
         LET req == requests[r]
             saves == req.full_response # <<>>
             known == req.conv \in DOMAIN conversations
             now == clock + 1
             message == Message("assistant", req.full_response, now)
             convs == AppendTurn(conversations, req.conv, message, now)
             appended == IF saves /\ known THEN Appended(req, message, outcome)
                         ELSE req
             raised == IF ~saves THEN "no"
                       ELSE IF ~known THEN "ValueError"
                       ELSE IF outcome # "ok" THEN "IOError"
                       ELSE "no"
         IN  /\ saves \/ outcome = "ok"
             /\ raised # "no" => ~followups
             /\ IF saves /\ known
                THEN /\ conversations' = convs
                     /\ disk' = AutoSave(disk, convs[req.conv], outcome)
                     /\ clock' = now
                     /\ last' = Call("add_message", req.conv, WriteResult(outcome),
                                     req.conv)
                ELSE /\ UNCHANGED <<conversations, disk, clock>>
                     /\ last' = IF saves
                                THEN Call("add_message", req.conv, "ValueError", req.conv)
                                ELSE last
             /\ requests' =
                  [requests EXCEPT ![r] =
                      IF raised # "no" THEN Caught(appended, raised)
                      ELSE IF followups
                           \* StreamChunk(type="followups") is no value of the
                           \* Literal: pydantic raises ValidationError
                           THEN Caught(appended, "ValidationError")
                           ELSE [Emit(appended, "done", "") EXCEPT !.pc = "closed"]]
    /\ UNCHANGED next_uuid

\* the client goes away while the generator is suspended: CancelledError or
\* GeneratorExit is thrown into it, and `except Exception` catches neither
disconnect(r) ==
    /\ r \in DOMAIN requests
    /\ requests[r].pc \in {"tools", "tool_hung", "tool_results", "streaming", "broke"}
    /\ requests' = [requests EXCEPT ![r].pc = "cancelled"]
    /\ UNCHANGED <<conversations, disk, clock, next_uuid, last>>

\* POST /simple/stream, simple_stream up to the provider loop
simple_stream_begin(r, id) ==
    /\ Arrives(r)
    /\ SimpleDraws(SimpleObject, id) => next_uuid < MaxUuid
    /\ \E o1 \in WriteOutcomes, o2 \in WriteOutcomes :
         LET req == Request("simple", id)
             s1 == SimpleGetOrCreate(SimpleObject, id, clock, o1)
             now == clock + 1
             s2 == SimpleAddMessage(s1, "user", Question, now, o2)
             message == s2.messages[Len(s2.messages)]
         IN  IF s1.raised
             THEN /\ o2 = "ok"
                  /\ SimpleInstall(s1)
                  /\ UNCHANGED clock
                  /\ last' = Call("simple.get_or_create", id, "IOError", s1.active)
                  /\ requests' = With(requests, r, Uncaught(req, "IOError"))
             ELSE /\ SimpleInstall(s2)
                  /\ clock' = now
                  /\ last' = Call("simple.add_message", s2.active, SimpleResult(s2),
                                  s2.active)
                  /\ requests' =
                       With(requests, r,
                            LET appended == Appended([req EXCEPT !.conv = s2.active,
                                                                 !.header = s2.active],
                                                     message, o2)
                            IN  IF s2.raised THEN Uncaught(appended, "IOError")
                                ELSE [appended EXCEPT !.pc = "streaming"])

\* simple_stream after the loop: the assistant turn goes to whatever
\* conversation is active by now, then conversation_id and done
simple_stream_finish(r) ==
    /\ r \in DOMAIN requests
    /\ requests[r].endpoint = "simple"
    /\ requests[r].pc \in {"streaming", "broke"}
    /\ \E outcome \in WriteOutcomes :
         LET req == requests[r]
             now == clock + 1
             s == SimpleAddMessage(SimpleObject, "assistant", req.full_response,
                                   now, outcome)
             appended == Appended(req, s.messages[Len(s.messages)], outcome)
         IN  /\ SimpleInstall(s)
             /\ clock' = now
             /\ last' = Call("simple.add_message", s.active, SimpleResult(s), s.active)
             /\ requests' =
                  [requests EXCEPT ![r] =
                      IF s.raised THEN Uncaught(appended, "IOError")
                      ELSE [Emit(Emit(appended, "conversation_id", ""), "done", "")
                               EXCEPT !.pc = "closed"]]

\* POST /v2/stream, stream_v2 up to the provider loop: the client sends the
\* whole history, and request.messages[-1] of an empty list raises IndexError
stream_v2_begin(r, id, sent) ==
    /\ Arrives(r)
    /\ id = NoId => next_uuid < MaxUuid
    /\ LET conv_id == IF id = NoId THEN next_uuid + 1 ELSE id
           req == [Request("v2", id) EXCEPT !.conv = conv_id]
       IN  /\ next_uuid' = IF id = NoId THEN next_uuid + 1 ELSE next_uuid
           /\ requests' = With(requests, r,
                               IF sent = 0 THEN Uncaught(req, "IndexError")
                               ELSE [req EXCEPT !.pc = "streaming"])
    /\ UNCHANGED <<v2_vars, clock, last>>

\* stream_v2 after the loop: both turns are stored, then conversation_id and
\* done; ConversationStore.save logs a failed write and returns
stream_v2_finish(r) ==
    /\ r \in DOMAIN requests
    /\ requests[r].endpoint = "v2"
    /\ requests[r].pc \in {"streaming", "broke"}
    /\ \E o1 \in WriteOutcomes, o2 \in WriteOutcomes :
         LET req == requests[r]
             id == req.conv
             t1 == clock + 1
             t2 == clock + 2
             c1 == V2Added(v2_conversations, id, "user", Question, t1)
             d1 == WriteFile(v2_disk, id, c1[id], t1, o1)
             c2 == V2Added(c1, id, "assistant", req.full_response, t2)
             d2 == WriteFile(d1, id, c2[id], t2, o2)
             appended == Appended(Appended(req, Dict("user", Question, t1), o1),
                                  Dict("assistant", req.full_response, t2), o2)
         IN  /\ v2_conversations' = c2
             /\ v2_disk' = d2
             /\ clock' = t2
             /\ last' = Call("v2.add_message", id, "ok", id)
             /\ requests' =
                  [requests EXCEPT ![r] =
                      [Emit(Emit(appended, "conversation_id", ""), "done", "")
                          EXCEPT !.pc = "closed"]]
    /\ UNCHANGED next_uuid

\* what a step of one store leaves alone
MemoryOnly == UNCHANGED <<v2_vars, simple_vars, requests, pure_vars, tracker_vars>>

V2Only == UNCHANGED <<mm_vars, simple_vars, requests, pure_vars, tracker_vars>>

SimpleOnly == UNCHANGED <<mm_vars, v2_vars, requests, pure_vars, tracker_vars>>

\* the MemoryManager through its calls
Next ==
    \/ \E id \in Held \cup {NoId} : get_or_create_conversation(id) /\ MemoryOnly
    \/ \E id \in Held, turn \in Turns :
          add_message(id, turn.role, turn.content) /\ MemoryOnly
    \/ \E id \in Held, limit \in {NoId, 1} : history(id, limit) /\ MemoryOnly
    \/ \E id \in Held, name \in Names : rename_conversation(id, name) /\ MemoryOnly
    \/ \E id \in Held : generate_conversation_name(id) /\ MemoryOnly
    \/ \E id \in Held : delete_conversation(id) /\ MemoryOnly
    \/ delete_all_conversations /\ MemoryOnly
    \/ \E limit \in 1..2 : list_conversations(limit) /\ MemoryOnly
    \/ Restart /\ MemoryOnly

Spec == Init /\ [][Next]_vars

\* MemoryManager and ConversationStore side by side, through their append paths
StoresNext ==
    \/ \E id \in Held \cup {NoId} : get_or_create_conversation(id) /\ MemoryOnly
    \/ \E id \in Held, turn \in Turns :
          add_message(id, turn.role, turn.content) /\ MemoryOnly
    \/ \E id \in Held, turn \in Turns :
          v2_add_message(id, turn.role, turn.content) /\ V2Only
    \/ \E id \in Held : v2_delete(id) /\ V2Only
    \/ v2_load_all /\ V2Only

SpecStores == Init /\ [][StoresNext]_vars

\* SimpleConversation through its calls
SimpleNext ==
    \/ \E id \in Held \cup {NoId} : simple_get_or_create(id) /\ SimpleOnly
    \/ \E turn \in Turns : simple_add_message(turn.role, turn.content) /\ SimpleOnly
    \/ simple_start_new /\ SimpleOnly

SpecSimple == Init /\ [][SimpleNext]_vars

\* POST /stream requests against the MemoryManager
ChatOnly == UNCHANGED <<v2_vars, simple_vars, pure_vars, tracker_vars>>

ChatNext ==
    \/ \E r \in Requests, id \in Held \cup {NoId} : chat_stream(r, id) /\ ChatOnly
    \/ \E r \in Requests : stream_begin(r) /\ ChatOnly
    \/ \E r \in Requests : execute_tool(r) /\ ChatOnly
    \/ \E r \in Requests : stream_tool_result(r) /\ ChatOnly
    \/ \E r \in Requests : provider_unavailable(r) /\ ChatOnly
    \/ \E r \in Requests : provider_token(r) /\ ChatOnly
    \/ \E r \in Requests : provider_error_chunk(r) /\ ChatOnly
    \/ \E r \in Requests : stream_finish(r) /\ ChatOnly
    \/ \E r \in Requests : disconnect(r) /\ ChatOnly

SpecChat == Init /\ [][ChatNext]_vars

\* the steps of request r's coroutine; the event loop runs every coroutine
\* that is ready, so a step that stays possible is taken
Runs(r) ==
    /\ \/ stream_begin(r)
       \/ execute_tool(r)
       \/ stream_tool_result(r)
       \/ provider_unavailable(r)
       \/ provider_token(r)
       \/ provider_error_chunk(r)
       \/ stream_finish(r)
    /\ ChatOnly

FairSpecChat == SpecChat /\ \A r \in Requests : WF_vars(Runs(r))

\* no request is in flight
Idle ==
    \A q \in DOMAIN requests :
        requests[q].pc \in {"closed", "aborted", "cancelled", "http_500"}

\* POST /stream requests one after the other: a client that waits for the end
\* of an exchange before it sends the next question
SequentialNext ==
    \/ \E r \in Requests, id \in Held \cup {NoId} :
          Idle /\ chat_stream(r, id) /\ ChatOnly
    \/ \E r \in Requests : Runs(r)
    \/ \E r \in Requests : disconnect(r) /\ ChatOnly

SpecSequential == Init /\ [][SequentialNext]_vars

\* POST /simple/stream and POST /v2/stream requests against their stores
StreamsNext ==
    \/ \E r \in Requests, id \in Held \cup {NoId} :
          simple_stream_begin(r, id) /\ UNCHANGED <<mm_vars, v2_vars, pure_vars, tracker_vars>>
    \/ \E r \in Requests : simple_stream_finish(r) /\ UNCHANGED <<mm_vars, v2_vars, pure_vars, tracker_vars>>
    \/ \E r \in Requests, id \in Held \cup {NoId}, sent \in 0..1 :
          stream_v2_begin(r, id, sent) /\ UNCHANGED <<mm_vars, simple_vars, pure_vars, tracker_vars>>
    \/ \E r \in Requests : stream_v2_finish(r) /\ UNCHANGED <<mm_vars, simple_vars, pure_vars, tracker_vars>>
    \/ \E r \in Requests : provider_unavailable(r) /\ ChatOnly
    \/ \E r \in Requests : provider_token(r) /\ ChatOnly
    \/ \E r \in Requests : provider_error_chunk(r) /\ ChatOnly
    \/ \E r \in Requests : disconnect(r) /\ ChatOnly

SpecStreams == Init /\ [][StreamsNext]_vars
\* ------------------------------------------------------ pure functions
\* A call of a pure function is one step: `args` gets what the function was
\* given and `returned` what it computed.  A run makes one such call.  A text is known by its length in
\* characters and by whether it has a character beyond ASCII.
CallOnly ==
    UNCHANGED <<mm_vars, clock, next_uuid, last, v2_vars, simple_vars, requests>>

PureOnly == CallOnly /\ UNCHANGED tracker_vars

NotCalled == args.fn = "none"

Min(a, b) == IF a <= b THEN a ELSE b

\* dict.get(key, default)
Get(dict, key, default) == IF key \in DOMAIN dict THEN dict[key] ELSE default

\* ------------------------------------------- core/history_manager.py
MaxHistory == 41       \* messages in a history handed to get_safe_history

PROVIDER_LIMITS ==
    [groq |-> 6000, gemini |-> 24000, openai |-> 14000, claude |-> 90000]

MAX_MESSAGES == [groq |-> 15, gemini |-> 30, openai |-> 20, claude |-> 40]

Providers == {"groq", "gemini", "openai", "claude", "local"}

Text(chars, unicode) == [chars |-> chars, unicode |-> unicode]

\* a short English message and a long Nepali one
Contents == {Text(40, FALSE), Text(8000, TRUE)}

\* an ordinary system prompt and one that alone exceeds every token limit
Prompts == {Text(2000, FALSE), Text(200000, TRUE)}

\* histories of n messages: k with one content, then n - k with another
History(a, b, k, n) ==
    [i \in 1..n |-> [role |-> IF i % 2 = 1 THEN "user" ELSE "assistant",
                     content |-> IF i <= k THEN a ELSE b]]

Histories ==
    {History(a, b, k, n) : a \in Contents, b \in Contents,
                           k \in 0..MaxHistory, n \in 0..MaxHistory}

\* estimate_tokens: len(text) // 2 with a non-ASCII character, else len(text) // 4
estimate_tokens(text) == IF text.unicode THEN text.chars \div 2 ELSE text.chars \div 4

RECURSIVE calculate_message_tokens(_)
calculate_message_tokens(msgs) ==
    IF msgs = <<>> THEN 0
    ELSE estimate_tokens(Head(msgs).content) + 4 + calculate_message_tokens(Tail(msgs))

\* history[:n], the oldest messages
FirstN(hist, n) == SubSeq(hist, 1, Min(n, Len(hist)))

\* history[-n:]; history[-0:] is the whole list
LastN(hist, n) ==
    IF n = 0 THEN hist
    ELSE SubSeq(hist, Max(1, Len(hist) - n + 1), Len(hist))

\* the while loop of truncate_history: the oldest message goes while the
\* tokens exceed what is available and more than 4 messages are left
RECURSIVE ReduceBelowFloor(_, _)
ReduceBelowFloor(truncated, available_tokens) ==
    IF calculate_message_tokens(truncated) > available_tokens /\ Len(truncated) > 0
    THEN ReduceBelowFloor(Tail(truncated), available_tokens)
    ELSE truncated

RECURSIVE ReduceFurther(_, _)
ReduceFurther(truncated, available_tokens) ==
    IF calculate_message_tokens(truncated) > available_tokens /\ Len(truncated) > 4
    THEN ReduceFurther(Tail(truncated), available_tokens)
    ELSE truncated

truncate_history(hist, provider, system_prompt_tokens, current_message_tokens) ==
    LET token_limit == Get(PROVIDER_LIMITS, provider, 6000)
        max_messages == Get(MAX_MESSAGES, provider, 15)
        available_tokens ==
            token_limit - system_prompt_tokens - current_message_tokens - 200
    IN  ReduceFurther(LastN(hist, max_messages), available_tokens)

get_safe_history(hist, provider, system_prompt, current_message) ==
    truncate_history(hist, provider, estimate_tokens(system_prompt),
                     estimate_tokens(current_message))

truncate_history_call ==
    /\ NotCalled
    /\ \E hist \in Histories, provider \in Providers :
         /\ args' = [fn |-> "truncate_history", history |-> hist,
                     provider |-> provider]
         /\ returned' = truncate_history(hist, provider, 500, 100)
    /\ PureOnly

get_safe_history_call ==
    /\ NotCalled
    /\ \E hist \in Histories, provider \in Providers,
          system_prompt \in Prompts, current_message \in Contents :
         /\ args' = [fn |-> "get_safe_history", history |-> hist,
                     provider |-> provider, system_prompt |-> system_prompt,
                     current_message |-> current_message]
         /\ returned' = get_safe_history(hist, provider, system_prompt,
                                         current_message)
    /\ PureOnly

HistoryNext ==
    \/ truncate_history_call
    \/ get_safe_history_call

SpecHistory == Init /\ [][HistoryNext]_vars

\* ---------------------------------------------- core/model_router.py
MaxWords == 21         \* filler words after the opening phrase of a question

\* Python's None, and what `if x` and `x or y` make of a value
None == "None"

Truthy(x) == x \notin {None, ""}

Or(x, y) == IF Truthy(x) THEN x ELSE y

\* A question is its words in lower case, as question.lower() has them, and
\* the number of question marks that end it.  Each word the tests of the
\* router look at is in Letters with its number of characters.
Letters ==
    [w \in {"compare", "python", "and", "go", "what", "is", "tell", "me",
            "explain", "why", "please"} |-> 
        CASE w \in {"go", "is", "me"} -> 2
          [] w \in {"and", "why"} -> 3
          [] w \in {"what", "tell"} -> 4
          [] w \in {"python", "please"} -> 6
          [] OTHER -> 7]

Openers ==
    {<<>>, <<"compare", "python", "and", "go">>, <<"what", "is">>,
     <<"tell", "me">>, <<"explain", "why">>}

Asked(opener, n, marks) ==
    [words |-> opener \o [i \in 1..n |-> "please"], marks |-> marks]

Questions ==
    {Asked(opener, n, marks) :
        opener \in Openers, n \in 0..MaxWords, marks \in 0..2} \
    {Asked(<<>>, 0, marks) : marks \in 1..2}

RECURSIVE SumLetters(_)
SumLetters(words) ==
    IF words = <<>> THEN 0 ELSE Letters[Head(words)] + SumLetters(Tail(words))

\* len(question.strip()): the letters, one space between two words, the marks
StrippedLen(question) ==
    SumLetters(question.words) + Max(0, Len(question.words) - 1) + question.marks

\* len(question.split())
WordCount(question) == Len(question.words)

\* `pattern in question_lower` for a pattern of whole words
Contains(question, pattern) ==
    \E i \in 1..Len(question.words) :
        /\ i + Len(pattern) - 1 <= Len(question.words)
        /\ SubSeq(question.words, i, i + Len(pattern) - 1) = pattern

simple_patterns ==
    {<<"what", "is">>, <<"who", "is">>, <<"where", "is">>, <<"when">>,
     <<"define">>, <<"meaning", "of">>}

complex_patterns ==
    {<<"analyze">>, <<"compare">>, <<"evaluate">>, <<"design">>, <<"create">>,
     <<"develop">>, <<"explain", "why">>, <<"how", "does">>,
     <<"pros", "and", "cons">>, <<"advantages", "and", "disadvantages">>,
     <<"step", "by", "step">>, <<"best", "way", "to">>, <<"optimize">>}

Languages == {"en-US", "hi-IN", "ne-NP", "hindi", "nepali"}

Contexts ==
    [is_followup : BOOLEAN, intent : {"general", "elaboration_request"}]

Preferences ==
    {None, "", "llama-3.3-70b-versatile", "gemini-1.5-flash", "gpt-4",
     "gemini-2.5-flash"}

Pair(provider, model) == [provider |-> provider, model |-> model]

\* the keyword tests before the length test
AnalyzeKeywordsFirst(question, context) ==
    IF \E pattern \in complex_patterns : Contains(question, pattern)
    THEN "complex"
    ELSE IF WordCount(question) < 8
    THEN IF context.is_followup THEN "medium" ELSE "simple"
    ELSE "medium"

_analyze_complexity(question, context) ==
    IF WordCount(question) < 8
    THEN IF context.is_followup THEN "medium" ELSE "simple"
    ELSE IF \E pattern \in complex_patterns : Contains(question, pattern)
    THEN "complex"
    ELSE IF \E pattern \in simple_patterns : Contains(question, pattern)
    THEN "simple"
    ELSE IF WordCount(question) > 20 THEN "complex"
    ELSE IF question.marks > 1 THEN "complex"
    ELSE "medium"

model_map ==
    [n \in {"llama-3.3-70b-versatile", "gemini-1.5-flash", "gpt-4"} |->
        CASE n = "llama-3.3-70b-versatile" -> Pair("groq", "llama-3.3-70b-versatile")
          [] n = "gemini-1.5-flash" -> Pair("gemini", "gemini-1.5-flash")
          [] OTHER -> Pair("openai", "gpt-4-turbo-preview")]

_get_model_config(model_name) ==
    Get(model_map, model_name, model_map["llama-3.3-70b-versatile"])

\* the rules of select_best_model after the user preference
ByComplexityFirst(question, language, context) ==
    IF _analyze_complexity(question, context) = "simple"
    THEN Pair("groq", "llama-3.3-70b-versatile")
    ELSE Pair("gemini", "gemini-2.5-flash")

\* without the rule for short questions
ByLanguageNoShortRule(question, language, context) ==
    IF language \in {"hi-IN", "hindi", "ne-NP", "nepali"}
    THEN Pair("gemini", "gemini-2.5-flash")
    ELSE IF context.is_followup \/ context.intent = "elaboration_request"
    THEN Pair("gemini", "gemini-2.5-flash")
    ELSE ByComplexityFirst(question, language, context)

ByLanguageFirst(question, language, context) ==
    IF language \in {"hi-IN", "hindi", "ne-NP", "nepali"}
    THEN Pair("gemini", "gemini-2.5-flash")
    ELSE IF context.is_followup \/ context.intent = "elaboration_request"
    THEN Pair("gemini", "gemini-2.5-flash")
    ELSE IF StrippedLen(question) < 25
    THEN Pair("gemini", "gemini-2.5-flash")
    ELSE LET complexity == _analyze_complexity(question, context)
         IN  CASE complexity = "simple" -> Pair("groq", "llama-3.3-70b-versatile")
               [] complexity = "medium" -> Pair("gemini", "gemini-2.5-flash")
               [] complexity = "complex" -> Pair("gemini", "gemini-2.5-flash")
               [] OTHER -> Pair("gemini", "gemini-1.5-flash")

select_best_model(question, language, context, user_preference) ==
    IF Truthy(user_preference)
    THEN _get_model_config(user_preference)
    ELSE ByLanguageFirst(question, language, context)

\* ------------------------------------------------ core/llm_engine.py
\* the providers initialize() can set up, by the API keys of the settings
Configurations == SUBSET {"groq", "gemini"}

default_model == "llama-3.3-70b-versatile"

gemini_model == "gemini-2.5-flash"

\* the provider it was given is called, whatever is configured
StreamChatAsGiven(providers, provider, model, language) ==
    IF provider \notin providers
    THEN [type |-> "error", content |-> "No LLM provider available"]
    ELSE [type |-> "call", provider |-> provider, model |-> model]

\* stream_chat up to the call of the provider: what it calls, or how it ends.
\* The provider it was given is replaced by the one of the language.
stream_chat(providers, provider, model, language) ==
    IF providers = {}
    THEN [type |-> "raised", content |-> "No LLM providers available"]
    ELSE LET chosen ==
                 IF language \in {"hi-IN", "ne-NP"}
                 THEN IF "gemini" \in providers THEN "gemini" ELSE "groq"
                 ELSE IF "groq" \in providers THEN "groq" ELSE "gemini"
         IN  IF chosen \notin providers
             THEN [type |-> "error", content |-> "No LLM provider available"]
             ELSE [type |-> "call", provider |-> chosen,
                   model |-> IF chosen = "groq" THEN Or(model, default_model)
                             ELSE Or(Or(model, gemini_model), "gemini-2.5-flash")]

_analyze_complexity_call ==
    /\ NotCalled
    /\ \E question \in Questions, context \in Contexts :
         /\ args' = [fn |-> "_analyze_complexity", question |-> question,
                     context |-> context]
         /\ returned' = _analyze_complexity(question, context)
    /\ PureOnly

select_best_model_call ==
    /\ NotCalled
    /\ \E question \in Questions, language \in Languages, context \in Contexts,
          user_preference \in Preferences :
         /\ args' = [fn |-> "select_best_model", question |-> question,
                     language |-> language, context |-> context,
                     user_preference |-> user_preference]
         /\ returned' = select_best_model(question, language, context,
                                          user_preference)
    /\ PureOnly

\* chat.py: the model is selected and stream_chat is called with it
model_call ==
    /\ NotCalled
    /\ \E providers \in Configurations, question \in Questions,
          language \in Languages, context \in Contexts,
          user_preference \in Preferences :
         LET model_config ==
                 select_best_model(question, language, context, user_preference)
         IN  /\ args' = [fn |-> "stream_chat", providers |-> providers,
                         question |-> question, language |-> language,
                         context |-> context,
                         user_preference |-> user_preference,
                         selected |-> model_config]
             /\ returned' = stream_chat(providers, model_config.provider,
                                        model_config.model, language)
    /\ PureOnly

RouterNext ==
    \/ _analyze_complexity_call
    \/ select_best_model_call
    \/ model_call

SpecRouter == Init /\ [][RouterNext]_vars

\* ------------------------------------------------ question in context
\* A text is the sequence of its words, in the case they were written in, with
\* a question mark as an element of its own, written without a space before it.
MaxExchanges == 1      \* exchanges stored before the request at hand

Say(role, content) == [role |-> role, content |-> content]

Statements ==
    {<<"Tell", "me", "about", "Kathmandu">>, <<"tell", "me", "about", "python">>,
     <<"My", "name", "is", "Dipesh">>}

\* what the assistant had answered to a statement
Reply(statement) ==
    CASE statement[4] = "Kathmandu" ->
             <<"Kathmandu", "is", "the", "capital", "of", "Nepal">>
      [] statement[4] = "python" -> <<"Python", "is", "a", "language">>
      [] OTHER -> <<"Nice", "to", "meet", "you">>

Asks ==
    {<<"mayor", "?">>, <<"history", "?">>, <<"who", "am", "I", "?">>,
     <<"how", "tall", "is", "the", "mountain">>,
     <<"Tell", "me", "about", "the", "history", "of", "Rome", "in", "detail">>}

RECURSIVE Stored(_)
Stored(n) ==
    IF n = 0 THEN {<<>>}
    ELSE Stored(n - 1) \cup
         {h \o <<Say("user", st), Say("assistant", Reply(st))>> :
             h \in Stored(n - 1), st \in Statements}

\* the words that match [A-Z][a-z]+
CapitalizedWords ==
    {"Tell", "Kathmandu", "My", "Dipesh", "Nepal", "Python", "Nice", "Rome"}

\* str.lower() of a word
Lower(word) ==
    CASE word = "Tell" -> "tell"
      [] word = "Kathmandu" -> "kathmandu"
      [] word = "My" -> "my"
      [] word = "Dipesh" -> "dipesh"
      [] word = "Nepal" -> "nepal"
      [] word = "Python" -> "python"
      [] word = "Nice" -> "nice"
      [] word = "Rome" -> "rome"
      [] word = "I" -> "i"
      [] OTHER -> word

\* len(word)
Chars(word) ==
    CASE Lower(word) \in {"a", "i", "?"} -> 1
      [] Lower(word) \in {"me", "is", "of", "in", "am", "my", "to"} -> 2
      [] Lower(word) \in {"the", "who", "how", "you"} -> 3
      [] Lower(word) \in {"tell", "name", "tall", "rome", "nice", "meet"} -> 4
      [] Lower(word) \in {"about", "mayor", "nepal"} -> 5
      [] Lower(word) \in {"python", "dipesh", "detail"} -> 6
      [] Lower(word) \in {"capital", "history"} -> 7
      [] Lower(word) \in {"language", "mountain"} -> 8
      [] OTHER -> 9

\* the keywords of the tracker and of the request handler that are substrings
\* of a word in lower case
KeywordsIn(word) ==
    CASE Lower(word) = "kathmandu" -> {"kathmandu"}
      [] Lower(word) = "nepal" -> {"nepal"}
      [] Lower(word) = "python" -> {"python"}
      [] Lower(word) = "mountain" -> {"ai", "mountain"}
      [] Lower(word) = "detail" -> {"ai"}
      [] OTHER -> {}

\* keyword in content.lower()
Mentions(content, keyword) ==
    \E i \in 1..Len(content) : keyword \in KeywordsIn(content[i])

\* content.split()
Split(content) == SelectSeq(content, LAMBDA w : w # "?")

RECURSIVE SumChars(_)
SumChars(content) ==
    IF content = <<>> THEN 0 ELSE Chars(Head(content)) + SumChars(Tail(content))

\* len(content.strip())
Length(content) == SumChars(content) + Max(0, Len(Split(content)) - 1)

\* re.findall(r'\b[A-Z][a-z]+\b', content)
Caps(content) == SelectSeq(content, LAMBDA w : w \in CapitalizedWords)

\* ------------------------------------------- core/context_tracker.py
topics ==
    <<[topic |-> "nepal", keywords |-> {"nepal", "kathmandu", "everest", "nepali"}],
      [topic |-> "india", keywords |-> {"india", "delhi", "mumbai", "indian"}],
      [topic |-> "programming",
       keywords |-> {"code", "programming", "python", "javascript", "software"}],
      [topic |-> "ai",
       keywords |-> {"ai", "artificial intelligence", "machine learning", "ml"}],
      [topic |-> "education",
       keywords |-> {"college", "university", "study", "course", "degree"}],
      [topic |-> "technology",
       keywords |-> {"computer", "tech", "app", "website", "digital"}],
      [topic |-> "mountains", keywords |-> {"mountain", "peak", "himalaya", "climb"}],
      [topic |-> "travel",
       keywords |-> {"travel", "trip", "visit", "tour", "destination"}]>>

entity_indicators ==
    <<"nepal", "india", "china", "america", "bangalore", "kathmandu", "delhi",
      "mumbai", "london", "tokyo", "paris", "new york", "python", "javascript",
      "ai", "machine learning", "programming", "college", "university", "school",
      "job", "career", "food", "music", "sports", "movies", "books", "mountains",
      "rivers", "cities", "countries", "computer", "software", "hardware", "app",
      "website", "cse", "engineering", "medical", "science", "arts">>

\* the indicators of one message that are not among the entities yet, in the
\* order of the list
RECURSIVE _extract_entities(_, _)
_extract_entities(msgs, entities) ==
    IF msgs = <<>>
    THEN SubSeq(entities, 1, Min(5, Len(entities)))
    ELSE _extract_entities(
             Tail(msgs),
             entities \o SelectSeq(entity_indicators,
                 LAMBDA k : /\ Mentions(Head(msgs).content, k)
                            /\ \A i \in 1..Len(entities) : entities[i] # k))

\* the topic of the first entry of `topics`, from the i-th on, with a keyword in
\* the messages
RECURSIVE FirstTopic(_, _)
FirstTopic(i, msgs) ==
    IF i > Len(topics) THEN None
    ELSE IF \E j \in 1..Len(msgs) : \E k \in topics[i].keywords :
                Mentions(msgs[j].content, k)
    THEN topics[i].topic
    ELSE FirstTopic(i + 1, msgs)

_identify_topic(msgs) ==
    IF msgs = <<>> \/ SelectSeq(msgs, LAMBDA m : m.role = "user") = <<>>
    THEN None
    ELSE FirstTopic(1, msgs)

\* the topic stack after extract_context has seen the topic
Pushed(stack, topic) ==
    IF Truthy(topic) /\ (stack = <<>> \/ stack[Len(stack)] # topic)
    THEN LET longer == Append(stack, topic)
         IN  IF Len(longer) > 5 THEN Tail(longer) ELSE longer
    ELSE stack

\* extract_context: the context it returns, of which the topic, the previous
\* topics and the entities are kept here, and the topic stack it leaves
extract_context(conversation_history, stack) ==
    IF Len(conversation_history) < 2
    THEN [context |-> [has_context |-> FALSE, current_topic |-> None,
                       entities |-> <<>>],
          topic_stack |-> stack]
    ELSE LET recent_messages == LastN(conversation_history, 8)
             topic == _identify_topic(recent_messages)
             after == Pushed(stack, topic)
         IN  [context |->
                  [has_context |-> TRUE,
                   current_topic |-> topic,
                   previous_topics |->
                       IF Len(after) > 1 THEN SubSeq(after, 1, Len(after) - 1)
                       ELSE <<>>,
                   entities |-> _extract_entities(recent_messages, <<>>)],
              topic_stack |-> after]

\* ------------------------------------- api/chat.py: stream_generator
\* the messages of the history that go into the context
HistoryDicts(hist) ==
    SelectSeq(LastN(hist, 10), LAMBDA m : m.role \in {"user", "assistant"})

\* the loop over reversed(history_dicts): the last capitalized word of the
\* latest user message that has one, or Nepal or Kathmandu when it names them
RECURSIVE LastTopic(_)
LastTopic(history_dicts) ==
    IF history_dicts = <<>> THEN None
    ELSE LET msg == history_dicts[Len(history_dicts)]
             older == SubSeq(history_dicts, 1, Len(history_dicts) - 1)
             caps == Caps(msg.content)
         IN  IF msg.role # "user" THEN LastTopic(older)
             ELSE IF caps # <<>> THEN caps[Len(caps)]
             ELSE IF Mentions(msg.content, "nepal") THEN "Nepal"
             ELSE IF Mentions(msg.content, "kathmandu") THEN "Kathmandu"
             ELSE LastTopic(older)

ActualQuestion(message, history_dicts) ==
    IF Length(message) < 30 /\ Len(history_dicts) >= 2
    THEN LET last_topic == LastTopic(history_dicts)
         IN  IF Truthy(last_topic) THEN message \o <<"of", last_topic>>
             ELSE message
    ELSE message

\* a request up to the question the model is asked: the user turn is stored,
\* the context is extracted, the question is rewritten
resolve_call ==
    /\ NotCalled
    /\ \E stored \in Stored(MaxExchanges), message \in Asks :
         \E history_dicts \in {HistoryDicts(Append(stored, Say("user", message)))} :
           \E extracted \in {extract_context(history_dicts, topic_stack)} :
             /\ args' = [fn |-> "resolve", message |-> message,
                         history |-> history_dicts]
             /\ returned' = [context_info |-> extracted.context,
                             actual_question |->
                                 ActualQuestion(message, history_dicts)]
             /\ topic_stack' = extracted.topic_stack
    /\ CallOnly

\* the same call of extract_context, of any request at any time
extract_context_call ==
    /\ \E stored \in Stored(MaxExchanges), message \in Asks :
         \E history_dicts \in {HistoryDicts(Append(stored, Say("user", message)))} :
           \E extracted \in {extract_context(history_dicts, topic_stack)} :
             /\ args' = [fn |-> "extract_context", history |-> history_dicts]
             /\ returned' = extracted.context
             /\ topic_stack' = extracted.topic_stack
    /\ CallOnly

ContextNext ==
    \/ resolve_call
    \/ extract_context_call

SpecContext == Init /\ [][ContextNext]_vars

\* ------------------------------------------ core/context_resolver.py
\* _is_vague_question, on the question in lower case
_is_vague_question(question) ==
    LET words == Split(question)
        first == IF words = <<>> THEN "" ELSE Lower(words[1])
        marks == Len(question) - Len(words)
    IN  \/ Length(question) < 20 /\ marks > 0
        \/ Len(words) <= 2
        \/ /\ Len(words) = 1
           /\ first \in {"what", "where", "when", "who", "why", "how"}
           /\ question[1] # "?"
        \/ first \in {"it", "that", "this", "there", "here"}
        \/ first \in {"more", "continue", "yes", "yeah", "ok"}
        \/ /\ Len(words) >= 3
           /\ <<first, Lower(words[2]), Lower(words[3])>> = <<"tell", "me", "more">>
        \/ first \in {"about", "regarding"}
        \/ Len(words) = 1 /\ Len(question) = 2 /\ question[2] = "?"

\* ------------------------------------------ core/auto_tool_caller.py
\* A question is a sequence of phrases in lower case, as q_lower has them,
\* each phrase at most once.
MaxPhrases == 4        \* phrases of a question handed to the tool caller

Phrases ==
    {"latest news", "weather", "in delhi", "about", "cpu usage", "find file",
     "mayor", "when is", "python"}

RECURSIVE PhraseSeqs(_)
PhraseSeqs(n) ==
    IF n = 0 THEN {<<>>}
    ELSE PhraseSeqs(n - 1) \cup
         {Append(q, ph) : q \in {x \in PhraseSeqs(n - 1) : Len(x) = n - 1},
                          ph \in Phrases}

ToolQuestions ==
    {q \in PhraseSeqs(MaxPhrases) :
        \A i \in 1..Len(q) : \A j \in 1..Len(q) : i # j => q[i] # q[j]}

\* the keywords of the tool caller that are substrings of a phrase
PhraseKeywords(phrase) ==
    CASE phrase = "latest news" -> {"latest", "latest news", "news"}
      [] phrase = "weather" -> {"weather"}
      [] phrase = "in delhi" -> {"delhi"}
      [] phrase = "about" -> {"about"}
      [] phrase = "cpu usage" -> {"cpu", "usage"}
      [] phrase = "find file" -> {"file", "find file"}
      [] phrase = "python" -> {"on", "python"}
      [] OTHER -> {}

\* any(keyword in question for keyword in keywords)
AnyOf(question, keywords) ==
    \E i \in 1..Len(question) : PhraseKeywords(question[i]) \cap keywords # {}

web_triggers ==
    {"latest", "current", "recent", "today", "news", "now", "what is happening",
     "update", "this year", "2024", "2025", "price of", "cost of", "how much",
     "where to buy", "best", "top", "recommend", "comparison", "who is",
     "what is", "where is"}

weather_keywords ==
    {"weather", "temperature", "rain", "forecast", "hot", "cold", "sunny",
     "cloudy", "climate"}

news_keywords ==
    {"news", "headlines", "latest news", "breaking", "happening", "updates",
     "current events"}

system_keywords ==
    {"cpu", "ram", "memory", "disk", "battery", "system status", "performance",
     "usage"}

file_keywords ==
    {"file", "folder", "directory", "find file", "search file", "locate",
     "where is my"}

common_cities == <<"bangalore", "delhi", "mumbai", "kathmandu", "london", "new york">>

_needs_web_search(question) ==
    \/ AnyOf(question, web_triggers)
    \/ \E i \in 1..Len(question) :
          question[i] \in {"mayor", "president", "ceo", "founder", "leader"}
    \/ /\ question # <<>>
       /\ question[1] \in {"what is", "who is", "where is", "when is"}
       /\ ~AnyOf(question, {"ai", "python", "programming", "computer"})

_is_weather_query(question) == AnyOf(question, weather_keywords)

_is_news_query(question) == AnyOf(question, news_keywords)

_is_system_query(question) == AnyOf(question, system_keywords)

_is_file_query(question) == AnyOf(question, file_keywords)

\* city.title()
Title(city) ==
    CASE city = "bangalore" -> "Bangalore"
      [] city = "delhi" -> "Delhi"
      [] city = "mumbai" -> "Mumbai"
      [] city = "kathmandu" -> "Kathmandu"
      [] city = "london" -> "London"
      [] OTHER -> "New York"

_extract_city(question) ==
    LET found == SelectSeq(common_cities, LAMBDA city : AnyOf(question, {city}))
    IN  IF found = <<>> THEN None ELSE Title(found[1])

\* a tool call to make; of the arguments, the texts taken from the question
\* (query, topic, pattern) are left out
ToolRequest(tool, operation, arguments) ==
    [tool |-> tool, operation |-> operation, arguments |-> arguments]

\* the news trigger with both of its requests
NewsRequestsBoth(question) ==
    IF _is_news_query(question)
    THEN <<ToolRequest("weather_news", "news_search", [max_results |-> 5]),
           ToolRequest("weather_news", "news",
                       [country |-> "in", category |-> "general"])>>
    ELSE <<>>

NewsRequests(question) ==
    IF _is_news_query(question)
    THEN IF AnyOf(question, {"about", "on"})
         THEN <<ToolRequest("weather_news", "news_search", [max_results |-> 5])>>
         ELSE <<ToolRequest("weather_news", "news",
                            [country |-> "in", category |-> "general"])>>
    ELSE <<>>

analyze_and_suggest_tools(question) ==
    (IF _needs_web_search(question)
     THEN <<ToolRequest("web_search", "web_search",
                        [provider |-> "duckduckgo", max_results |-> 5])>>
     ELSE <<>>)
    \o (IF _is_weather_query(question)
        THEN <<ToolRequest("weather_news", "weather",
                           [city |-> Or(_extract_city(question), "Bangalore"),
                            country |-> "IN"])>>
        ELSE <<>>)
    \o NewsRequests(question)
    \o (IF _is_system_query(question)
        THEN <<ToolRequest("hardware_monitor", "all", <<>>)>>
        ELSE <<>>)
    \o (IF _is_file_query(question)
        THEN <<ToolRequest("file_operations", "search", [path |-> "."])>>
        ELSE <<>>)

analyze_and_suggest_tools_call ==
    /\ NotCalled
    /\ \E question \in ToolQuestions :
         /\ args' = [fn |-> "analyze_and_suggest_tools", question |-> question]
         /\ returned' = analyze_and_suggest_tools(question)
    /\ PureOnly

ToolsNext == analyze_and_suggest_tools_call

SpecTools == Init /\ [][ToolsNext]_vars

\* ================================================================ claims
Range(seq) == {seq[i] : i \in DOMAIN seq}

\* the response is over: the generator returned or raised
Ended(req) == req.pc \in {"closed", "aborted"}

\* C1: a response of stream_generator holds a terminal event (done or error)
\* in its last place only, and a response that is over ends with one: exactly
\* one terminal event, nothing after it, never an error and a done together.
C1_ExactlyOneTerminalEvent ==
    \A r \in DOMAIN requests :
        requests[r].endpoint = "stream" =>
            LET events == requests[r].events
            IN  /\ \A i \in DOMAIN events :
                      events[i].type \in Terminal => i = Len(events)
                /\ Ended(requests[r]) =>
                      events # <<>> /\ events[Len(events)].type \in Terminal

\* C2: on /stream, /v2/stream and /simple/stream, a response that is over,
\* the client still listening, ended with a done or an error event, also when
\* the store, the provider or the event construction raised.
C2_TerminalEventReceived ==
    \A r \in DOMAIN requests :
        Ended(requests[r]) =>
            LET events == requests[r].events
            IN  events # <<>> /\ events[Len(events)].type \in Terminal

Unknown(id) == id # NoId /\ id \notin DOMAIN conversations

C4_GetOrCreateUnknownCreates ==
    [][(last'.op = "get_or_create" /\ Unknown(last'.arg)) =>
          /\ last'.outcome = "ok"
          /\ last'.arg \in DOMAIN conversations'
          /\ conversations'[last'.arg].id = last'.arg
          /\ conversations'[last'.arg].messages = <<>>]_vars

\* C5: append on an existing conversation, then history(limit=None): the
\* history before the append, in its order, followed by the appended turn.
C5_AppendThenHistory ==
    [][\A id \in Held, turn \in Turns :
          (id \in DOMAIN conversations /\ add_message(id, turn.role, turn.content)) =>
              get_conversation_history(conversations', id, NoId) =
                  Append(get_conversation_history(conversations, id, NoId),
                         Message(turn.role, turn.content, clock'))]_vars

\* C5 witness: an append onto a history that already had a turn
C5_Witness ==
    /\ last.op = "add_message"
    /\ last.outcome = "ok"
    /\ last.arg \in DOMAIN conversations
    /\ Len(conversations[last.arg].messages) >= 2

\* the turns of a /simple conversation: in memory while it is the active one,
\* in its file otherwise
SimpleKnown(active, d, id) == id = active \/ CanLoad(d, id)

SimpleTurns(active, msgs, d, id) == IF id = active THEN msgs ELSE d[id].messages

\* C6: the turn sequence of a conversation that is not deleted only grows at
\* its end, whatever get_or_create, append, rename, generate_conversation_name,
\* history and list calls run, and rename and generate_conversation_name
\* change nothing but name and updated_at.
C6_AppendOnly ==
    [][/\ last'.op # "restart" =>
             \A id \in DOMAIN conversations \cap DOMAIN conversations' :
                 IsPrefix(conversations[id].messages, conversations'[id].messages)
       /\ last'.op \in {"rename", "generate_name"} =>
             /\ DOMAIN conversations' = DOMAIN conversations
             /\ \A id \in DOMAIN conversations :
                   conversations'[id] = [conversations[id] EXCEPT
                                            !.name = conversations'[id].name,
                                            !.updated_at = conversations'[id].updated_at]
       /\ \A id \in 1..next_uuid :
             (/\ SimpleKnown(active_conversation_id, simple_disk, id)
              /\ SimpleKnown(active_conversation_id', simple_disk', id)) =>
                 IsPrefix(SimpleTurns(active_conversation_id, messages, simple_disk, id),
                          SimpleTurns(active_conversation_id', messages', simple_disk', id))]_vars

\* C7: once a mutating call has returned, the file of its conversation holds
\* the conversation as it is in memory (no file after delete), so a restart
\* loads exactly that.
Mutated ==
    \/ last.op = "get_or_create" /\ last.arg = NoId
    \/ last.op \in {"add_message", "rename"}

C8_WriteFailureIsWarning ==
    \A r \in DOMAIN requests :
        (requests[r].endpoint = "stream" /\ requests[r].unsaved # <<>>) =>
            /\ Range(requests[r].unsaved) \subseteq
                  Range(get_conversation_history(conversations, requests[r].conv, NoId))
            /\ \A i \in DOMAIN requests[r].events :
                  requests[r].events[i] # Event("error", "IOError")
            /\ Ended(requests[r]) =>
                  requests[r].events[Len(requests[r].events)].type = "done"

\* C9: when the client disconnects during the provider stream, the text
\* accumulated so far is stored as an assistant turn of the conversation.
C9_PartialTurnPersisted ==
    \A r \in DOMAIN requests :
        (/\ requests[r].endpoint = "stream"
         /\ requests[r].pc = "cancelled"
         /\ requests[r].full_response # <<>>) =>
            \E m \in Range(get_conversation_history(conversations, requests[r].conv, NoId)) :
                m.role = "assistant" /\ m.content = requests[r].full_response

StoredTurns(endpoint, id) ==
    CASE endpoint = "stream" -> get_conversation_history(conversations, id, NoId)
      [] endpoint = "simple" ->
            IF SimpleKnown(active_conversation_id, simple_disk, id)
            THEN SimpleTurns(active_conversation_id, messages, simple_disk, id)
            ELSE <<>>
      [] OTHER -> IF id \in DOMAIN v2_conversations THEN v2_conversations[id] ELSE <<>>

\* C11: under every interleaving of requests, a turn that a request for
\* conversation A appended is in no other conversation's turn sequence.
C11_ConversationsIndependent ==
    \A r \in DOMAIN requests :
        \A id \in 1..next_uuid :
            id # requests[r].conv =>
                Range(requests[r].appended)
                    \cap Range(StoredTurns(requests[r].endpoint, id)) = {}

\* the request waits for a pre-executed tool
AwaitsTool(r) ==
    r \in DOMAIN requests /\ requests[r].pc \in {"tools", "tool_hung"}

\* C12: a request that waits for a suggested tool gets past the wait, to the
\* provider stream, also when the tool never returns.
C12_ToolNeverBlocksModelCall ==
    \A r \in Requests : AwaitsTool(r) ~> ~AwaitsTool(r)

ExchangesOn(id) == {r \in DOMAIN requests : requests[r].conv = id}

EndedWithDone(r) ==
    /\ requests[r].pc = "closed"
    /\ requests[r].events[Len(requests[r].events)].type = "done"

Alternates(turns) ==
    \A i \in DOMAIN turns :
        turns[i].role = IF i % 2 = 1 THEN "user" ELSE "assistant"

\* C14: when the n exchanges run one after the other on a conversation have
\* all ended with done, the conversation holds exactly 2n turns, user and
\* assistant in turn, in memory and in its file, whatever the provider sent.
C14_TwoTurnsPerExchange ==
    \A id \in DOMAIN conversations :
        (\A r \in ExchangesOn(id) : EndedWithDone(r)) =>
            /\ Len(conversations[id].messages) = 2 * Cardinality(ExchangesOn(id))
            /\ Alternates(conversations[id].messages)
            /\ id \in DOMAIN LoadFromDisk(disk) =>
                  LoadFromDisk(disk)[id].messages = conversations[id].messages

\* C15: truncate_history and get_safe_history return at most the provider's
\* MAX_MESSAGES messages (15 for a provider without an entry) and at least
\* min(4, len(history)) of them.
C15_BoundHistory ==
    args.fn \in {"truncate_history", "get_safe_history"} =>
        /\ Len(returned) <= Get(MAX_MESSAGES, args.provider, 15)
        /\ Len(returned) >= Min(4, Len(args.history))

\* C15 witness: a history longer than the provider allows, cut down to the
\* floor of 4 messages because of its tokens
C15_Witness ==
    /\ args.fn = "get_safe_history"
    /\ Len(args.history) > Get(MAX_MESSAGES, args.provider, 15)
    /\ Len(returned) = 4
    /\ calculate_message_tokens(returned) > PROVIDER_LIMITS.groq

\* C16: with an explicit user preference, the provider and the model of the
\* model call are the preferred ones, whatever the language and the question.
C16_PreferenceWins ==
    /\ args.fn = "stream_chat"
    /\ args.user_preference \in DOMAIN model_map
    /\ returned.type = "call"
    => /\ returned.provider = model_map[args.user_preference].provider
       /\ returned.model = model_map[args.user_preference].model

Multilingual == {"hi-IN", "hindi", "ne-NP", "nepali"}

\* C17: without a user preference, select_best_model returns the
\* multilingual provider (gemini) for a language of the multilingual set,
\* whatever the complexity, the follow-up status and the question.
C17_MultilingualFirst ==
    /\ args.fn = "select_best_model"
    /\ ~Truthy(args.user_preference)
    /\ args.language \in Multilingual
    => returned.provider = "gemini"

\* C17 witness: a long question of complexity simple in Nepali, which the
\* complexity rule alone would send to groq
C17_Witness ==
    /\ args.fn = "select_best_model"
    /\ ~Truthy(args.user_preference)
    /\ args.language = "ne-NP"
    /\ ~args.context.is_followup
    /\ args.context.intent = "general"
    /\ StrippedLen(args.question) >= 25
    /\ _analyze_complexity(args.question, args.context) = "simple"
    /\ returned.provider = "gemini"

C19_SelectionTotal ==
    args.fn = "stream_chat" =>
        /\ returned.type = "call" => returned.provider \in args.providers
        /\ args.selected.provider \notin args.providers /\ args.providers # {}
              => returned.type = "call" /\ returned.provider \in args.providers
        /\ returned.type # "call" => args.providers = {}

\* C19 witness: gemini was selected, only groq is configured, groq is called
C19_Witness ==
    /\ args.fn = "stream_chat"
    /\ args.selected.provider = "gemini"
    /\ args.providers = {"groq"}
    /\ returned.type = "call"
    /\ returned.provider = "groq"

\* C20 as stated: _analyze_complexity returns complex for every question
\* outside a follow-up that contains a keyword of the complex patterns,
\* also for one of fewer than 8 words.
C20_ComplexKeywordIsComplex ==
    /\ args.fn = "_analyze_complexity"
    /\ ~args.context.is_followup
    /\ \E pattern \in complex_patterns : Contains(args.question, pattern)
    => returned = "complex"

\* C20 amended: _analyze_complexity returns complex for a question of at
\* least 8 words that contains a keyword of the complex patterns; a question
\* of fewer than 8 words outside a follow-up is simple whatever it contains.
C20_ComplexKeywordFromEightWords ==
    args.fn = "_analyze_complexity" =>
        /\ /\ WordCount(args.question) >= 8
           /\ \E pattern \in complex_patterns : Contains(args.question, pattern)
           => returned = "complex"
        /\ WordCount(args.question) < 8 /\ ~args.context.is_followup
           => returned = "simple"

\* C20 witness: "compare python and go" and four more words, complex
C20_Witness ==
    /\ args.fn = "_analyze_complexity"
    /\ WordCount(args.question) = 8
    /\ Contains(args.question, <<"compare">>)
    /\ ~args.context.is_followup
    /\ returned = "complex"

\* C21: for a follow-up, _analyze_complexity returns medium or complex,
\* never simple, whatever the word count and the keywords of the question.
C21_FollowupNeverSimple ==
    /\ args.fn = "_analyze_complexity"
    /\ args.context.is_followup
    => returned \in {"medium", "complex"}

\* the question names the topic: one of its words has a keyword of the topic
NamesTopic(question, topic) ==
    \E i \in 1..Len(topics) :
        /\ topics[i].topic = topic
        /\ \E k \in topics[i].keywords : Mentions(question, k)

\* C22: for a one-word question of the lexicon ("mayor?", "history?") asked
\* when the context has a current topic, the question the model is asked
\* names the topic and differs from the question as it was asked.
C22_VagueQuestionNamesTopic ==
    /\ args.fn = "resolve"
    /\ args.message \in {<<"mayor", "?">>, <<"history", "?">>}
    /\ Truthy(returned.context_info.current_topic)
    => /\ NamesTopic(returned.actual_question, returned.context_info.current_topic)
       /\ returned.actual_question # args.message

\* C23: a question that is not vague (20 characters or more, more than 2
\* words, none of the referential patterns) reaches the model as it was asked.
C23_ClearQuestionUnchanged ==
    /\ args.fn = "resolve"
    /\ ~_is_vague_question(args.message)
    /\ Length(args.message) >= 20
    => returned.actual_question = args.message

\* the question with " of {topic}" or " in {topic}" behind it
TopicAppended(message, question) ==
    /\ Len(question) = Len(message) + 2
    /\ SubSeq(question, 1, Len(message)) = message
    /\ question[Len(message) + 1] \in {"of", "in"}

\* C24: after "My name is Dipesh", the question "who am I?" does not go
\* through the topic path: no " of {topic}" or " in {topic}" is put behind it.
C24_SelfQuestionNotTopicAppended ==
    /\ args.fn = "resolve"
    /\ args.message = <<"who", "am", "I", "?">>
    /\ \E i \in 1..Len(args.history) :
          args.history[i] = Say("user", <<"My", "name", "is", "Dipesh">>)
    => ~TopicAppended(args.message, returned.actual_question)

\* the place of a request's trigger in the order the triggers are checked in
TriggerOf(request) ==
    CASE request.tool = "web_search" -> 1
      [] request.tool = "weather_news" /\ request.operation = "weather" -> 2
      [] request.tool = "weather_news" -> 3
      [] request.tool = "hardware_monitor" -> 4
      [] OTHER -> 5

\* C25: analyze_and_suggest_tools returns the requests of the triggers that
\* fired in the order web search, weather, news, system, files, at most one
\* request per trigger and so at most five.
C25_OneRequestPerTrigger ==
    args.fn = "analyze_and_suggest_tools" =>
        /\ Len(returned) <= 5
        /\ \A i \in 1..Len(returned) : \A j \in 1..Len(returned) :
              i < j => TriggerOf(returned[i]) < TriggerOf(returned[j])

\* C25 witness: a question on which the five triggers fire
C25_Witness ==
    /\ args.fn = "analyze_and_suggest_tools"
    /\ Len(returned) = 5
    /\ returned[2].operation = "weather"
    /\ returned[3].operation = "news"

IsSuffix(s, t) == Len(s) <= Len(t) /\ SubSeq(t, Len(t) - Len(s) + 1, Len(t)) = s

\* the tokens left for the history in the call that `args` records
AvailableTokens ==
    Get(PROVIDER_LIMITS, args.provider, 6000)
    - (IF args.fn = "get_safe_history"
       THEN estimate_tokens(args.system_prompt)
            + estimate_tokens(args.current_message)
       ELSE 500 + 100)
    - 200

\* the history fits the budget or is down to 4 messages
Fits(hist) ==
    calculate_message_tokens(hist) <= AvailableTokens \/ Len(hist) <= 4

\* C26: truncate_history returns a suffix of the history, oldest first, that
\* fits the token budget of the provider or has at most 4 messages, and of the
\* suffixes of the last MAX_MESSAGES messages it is the longest that does.
C26_LongestFittingSuffix ==
    args.fn \in {"truncate_history", "get_safe_history"} =>
        LET window == LastN(args.history, Get(MAX_MESSAGES, args.provider, 15))
        IN  /\ IsSuffix(returned, args.history)
            /\ Fits(returned)
            /\ \A n \in (Len(returned) + 1)..Len(window) : ~Fits(LastN(window, n))

\* C26 witness: the tokens cut the history down, to more than 4 messages
C26_Witness ==
    /\ args.fn = "truncate_history"
    /\ Len(returned) > 4
    /\ Len(returned) < Min(Len(args.history), Get(MAX_MESSAGES, args.provider, 15))
    /\ calculate_message_tokens(returned) <= AvailableTokens

\* C27: the context extract_context returns (current topic, previous topics,
\* entities) is a function of the history it is given: it is what a tracker
\* that has seen no other history returns, whatever was extracted before.
C27_ContextFunctionOfHistory ==
    args.fn = "extract_context" =>
        returned = extract_context(args.history, <<>>).context

\* C28: the id a /stream request returns in the X-Conversation-ID header is
\* the id of the conversation its turns are stored in, with or without an id
\* in the request.
C28_HeaderNamesConversation ==
    \A r \in DOMAIN requests :
        requests[r].endpoint = "stream" /\ requests[r].appended # <<>>
            => requests[r].conv = requests[r].header

\* the models the router selects for a provider
ModelsOf(provider) ==
    CASE provider = "groq" -> {"llama-3.3-70b-versatile"}
      [] provider = "gemini" -> {"gemini-2.5-flash", "gemini-1.5-flash"}
      [] provider = "openai" -> {"gpt-4-turbo-preview"}
      [] OTHER -> {}

\* C29: without a user preference, the model handed to the provider that
\* stream_chat calls is a model of that provider, whatever the language, the
\* question and the context.
C29_ModelOfCalledProvider ==
    /\ args.fn = "stream_chat"
    /\ ~Truthy(args.user_preference)
    /\ returned.type = "call"
    => returned.model \in ModelsOf(returned.provider)

StreamChunkTypes == {"token", "tool_call", "tool_result", "error", "done"}

AssistantTurnPersisted(req) ==
    /\ \E i \in DOMAIN req.appended : req.appended[i].role = "assistant"
    /\ \A i \in DOMAIN req.unsaved : req.unsaved[i].role # "assistant"

\* C30: a response of stream_generator that is over, whose provider stream sent
\* no error chunk and whose assistant turn was appended and saved, ends with a
\* done event, with or without follow-up suggestions for the current topic,
\* and every event of it has a type of the StreamChunk schema.
C30_DoneAfterPersistedResponse ==
    \A r \in DOMAIN requests :
        LET req == requests[r]
            events == req.events
        IN  /\ req.endpoint = "stream"
            /\ req.pc = "closed"
            /\ \A i \in DOMAIN events : events[i].content # "provider"
            /\ AssistantTurnPersisted(req)
            => /\ events[Len(events)].type = "done"
               /\ \A i \in DOMAIN events : events[i].type \in StreamChunkTypes
====
